---- MODULE Spec2Model ----
(***************************************************************************)
(* Model of backup.py: the GitHubSaver client and the command-line driver  *)
(* __parser_github.  One step of the model is one piece of I/O of the      *)
(* program (an HTTP request, a file write, a shell command) together with  *)
(* the pure code around it.                                                *)
(*                                                                         *)
(* Strings are sequences of tokens, so that os.path.join, os.path.basename,*)
(* os.path.splitext and str.replace are computed and not assumed.          *)
(* Each command-line flag is read at exactly one point of __parser_github, *)
(* so it is drawn where it is read.                                        *)
(***************************************************************************)
EXTENDS Integers, Sequences, FiniteSets, TLC

VARIABLES
    pc,          \* position of __parser_github
    HEADERS,     \* GitHubSaver.HEADERS["Authorization"], a class attribute
    self,        \* the fields of the GitHubSaver instance of the run
    cache,       \* the cached_property values of the instance (name -> value)
    fs,          \* the local file system (path -> content)
    op,          \* arguments and locals of the terminal operation under way
    visited,     \* per-repository requests / commands of the operation under way
    cmds,        \* the commands handed to os.system, oldest first
    listReqs,    \* number of GET users/<login>/<stage> issued, per stage
    lastListing, \* the response of the latest listing request
    nExports,    \* number of JSON exports selected so far
    clients,     \* library use: the token each constructed client was given
    sent         \* library use: the latest request sent

vars == <<pc, HEADERS, self, cache, fs, op, visited, cmds, listReqs,
          lastListing, nExports, clients, sent>>

----------------------------------------------------------------------------
(* Bounds *)

\* longest listing the API returns
MaxListing == 2

\* number of JSON exports (--stars, --forks, --issues) selected in one run
MaxExports == 1

\* number of GitHubSaver instances constructed in one process (library use)
MaxClients == 3

----------------------------------------------------------------------------
(* Program constants and input domains *)

OK == 200

NoToken == "None"

Login == "alice"

\* the repositories that exist on the server: owner, name (a token sequence)
\* and whether the repository is a fork
Repositories ==
    { [owner |-> "alice", name |-> <<"a">>,                  fork |-> FALSE],
      [owner |-> "alice", name |-> <<"github", ".", "com">>, fork |-> TRUE],
      [owner |-> "bob",   name |-> <<"a">>,                  fork |-> FALSE] }

Tokens == {"T"}

\* GitHubSaver.API_URL
API_URL == <<"https:", "/", "/", "api.github.com", "/">>

\* the host part of a clone URL
Host == <<"github", ".", "com">>

\* one entry of a listing: the fields of the JSON object the program reads
Entry(owner, name, fork) ==
    [ url       |-> API_URL \o <<"repos", "/", owner, "/">> \o name,
      clone_url |-> <<"https:", "/", "/">> \o Host \o <<"/", owner, "/">> \o name \o <<".", "git">>,
      fork      |-> fork ]

\* users/<login>/repos lists the repositories <login> owns
OwnedEntries == { Entry(r.owner, r.name, r.fork) : r \in {x \in Repositories : x.owner = Login} }

\* users/<login>/starred lists repositories of any owner
StarredEntries == { Entry(r.owner, r.name, r.fork) : r \in Repositories }

RECURSIVE SeqsUpTo(_, _)
SeqsUpTo(S, n) ==
    IF n = 0 THEN {<<>>}
    ELSE LET shorter == SeqsUpTo(S, n - 1)
         IN  shorter \cup { Append(s, x) : s \in shorter, x \in S }

\* a listing never holds the same repository twice
Distinct(s) == \A i, j \in 1..Len(s) : i # j => s[i].url # s[j].url

Listings(stage) ==
    { s \in SeqsUpTo(IF stage = "repos" THEN OwnedEntries ELSE StarredEntries, MaxListing) :
        Distinct(s) }

\* what a GET of a listing endpoint can answer
ListingResponses(stage) ==
    { [status |-> OK, body |-> b] : b \in Listings(stage) }
        \cup { [status |-> 404, body |-> <<>>] }

\* the raw element of a detail listing, per sub-resource
RawItem(stage) ==
    CASE stage = "stargazers" -> [login |-> "carol", id |-> 7, node_id |-> "n7", type |-> "User"]
      [] stage = "forks"      -> [owner |-> [login |-> "carol"], id |-> 9, node_id |-> "n9", type |-> "Repo"]
      [] stage = "issues"     -> [login |-> "carol", id |-> 3, node_id |-> "n3", type |-> "Issue"]

DetailResponses(stage) ==
    { [status |-> OK, body |-> <<>>],
      [status |-> OK, body |-> <<RawItem(stage)>>],
      [status |-> 404, body |-> <<>>] }

\* the zipball of a repository: its bytes identify the repository
ZipResponses(repo_url) ==
    { [status |-> OK, content |-> [kind |-> "zip", of |-> repo_url]],
      [status |-> 404, content |-> [kind |-> "none", of |-> repo_url]] }

OldContent == [kind |-> "old", of |-> <<>>]

----------------------------------------------------------------------------
(* Pure code *)

\* index of the last occurrence of token t in s, 0 when there is none
RECURSIVE LastIndex(_, _, _)
LastIndex(s, t, i) ==
    IF i = 0 THEN 0
    ELSE IF s[i] = t THEN i ELSE LastIndex(s, t, i - 1)

\* os.path.join(a, b)
PathJoin(a, b) ==
    IF a = <<>> \/ a[Len(a)] = "/" THEN a \o b ELSE a \o <<"/">> \o b

\* os.path.basename(p)
Basename(p) == SubSeq(p, LastIndex(p, "/", Len(p)) + 1, Len(p))

\* os.path.splitext(p)[0]
SplitextRoot(p) ==
    LET dot == LastIndex(p, ".", Len(p))
        sep == LastIndex(p, "/", Len(p))
    IN  IF dot > sep + 1 /\ (\E k \in (sep + 1)..(dot - 1) : p[k] # ".")
        THEN SubSeq(p, 1, dot - 1)
        ELSE p

IsPrefixAt(s, pat, i) ==
    /\ i + Len(pat) - 1 <= Len(s)
    /\ \A k \in 1..Len(pat) : s[i + k - 1] = pat[k]

\* str.replace(old, new) from position i on: leftmost, non-overlapping, all
RECURSIVE ReplaceFrom(_, _, _, _)
ReplaceFrom(s, old, new, i) ==
    IF i > Len(s) THEN <<>>
    ELSE IF IsPrefixAt(s, old, i)
         THEN new \o ReplaceFrom(s, old, new, i + Len(old))
         ELSE <<s[i]>> \o ReplaceFrom(s, old, new, i + 1)

StrReplace(s, old, new) == ReplaceFrom(s, old, new, 1)

\* the value __response returns for an HTTP answer: None for a non-200 status
Response(resp) ==
    IF resp.status = OK
    THEN [isNone |-> FALSE, json |-> resp.body]
    ELSE [isNone |-> TRUE, json |-> <<>>]

\* Python truth value of what __response returns
Truthy(r) == ~r.isNone /\ r.json # <<>>

\* __api_request with "if response is None" in place of "if not response"
ApiRequestNoneOnly(resp) ==
    LET response == Response(resp)
    IN  IF response.isNone
        THEN [raised |-> TRUE, value |-> <<>>]
        ELSE [raised |-> FALSE, value |-> response.json]

\* __api_request: raises when the listing is None or empty
ApiRequest(resp) ==
    LET response == Response(resp)
    IN  IF ~Truthy(response)
        THEN [raised |-> TRUE, value |-> <<>>]
        ELSE [raised |-> FALSE, value |-> response.json]

\* _remote_request from position i on
RECURSIVE RemoteFrom(_, _, _, _)
RemoteFrom(content, clone_url, user_forks, i) ==
    IF i > Len(content) THEN <<>>
    ELSE IF ~user_forks /\ content[i].fork
         THEN RemoteFrom(content, clone_url, user_forks, i + 1)
         ELSE <<IF clone_url THEN content[i].clone_url ELSE content[i].url>>
                  \o RemoteFrom(content, clone_url, user_forks, i + 1)

\* _remote_request with the _user_forks test left out
RemoteRequestDropsForks(content, clone_url, user_forks) ==
    RemoteFrom(content, clone_url, FALSE, 1)

RemoteRequest(content, clone_url, user_forks) ==
    RemoteFrom(content, clone_url, user_forks, 1)

\* the reduced record of get_stargazers / get_forks
Reduced(stage, item) ==
    IF stage = "forks"
    THEN [login |-> item.owner.login, id |-> item.id, node_id |-> item.node_id]
    ELSE [login |-> item.login, id |-> item.id, node_id |-> item.node_id]

\* get_stargazers, get_forks, get_issues applied to the HTTP answer
GetDetail(stage, resp) ==
    LET response == Response(resp)
    IN  IF stage = "issues" THEN response
        ELSE IF Truthy(response)
             THEN [isNone |-> FALSE,
                   json |-> [k \in 1..Len(response.json) |-> Reduced(stage, response.json[k])]]
             ELSE [isNone |-> FALSE, json |-> <<>>]

\* repo_dict[key] = value on an insertion-ordered dict
DictSet(d, key, value) ==
    IF \E k \in 1..Len(d) : d[k].key = key
    THEN [k \in 1..Len(d) |-> IF d[k].key = key THEN [key |-> key, value |-> value] ELSE d[k]]
    ELSE Append(d, [key |-> key, value |-> value])

\* the loop body of __save_list without the "if result" test
SaveListItemAlways(repo_dict, repo_url, stage, resp) ==
    DictSet(repo_dict, Basename(repo_url), GetDetail(stage, resp).json)

\* the body of the loop of __save_list for one repository
SaveListItem(repo_dict, repo_url, stage, resp) ==
    LET repo_name == Basename(repo_url)
        result == GetDetail(stage, resp)
    IN  IF Truthy(result) THEN DictSet(repo_dict, repo_name, result.json) ELSE repo_dict

\* save_path of __save_list
JsonPath(login, destination) == <<login, "_", destination, ".", "json">>

\* repo_path of save_repos
ZipPath(save_path, repo_url) == PathJoin(save_path, Basename(repo_url) \o <<".", "zip">>)

\* the test of save_repos with force left out
ZipWritesIgnoresForce(force, files, repo_path) == repo_path \notin files

\* whether save_repos writes the archive it fetched
ZipWrites(force, files, repo_path) == force \/ repo_path \notin files

\* the clone URL clone_repos puts in the command
CloneTarget(repo_url, login, token) ==
    IF token # NoToken
    THEN StrReplace(repo_url, Host, <<login, ":", token, "@">> \o Host)
    ELSE repo_url

\* repo_path of clone_repos
ClonePath(clone_path, repo_url) == PathJoin(clone_path, SplitextRoot(Basename(repo_url)))

SavePath == <<"out">>


\* open(path, "w") followed by a full write
WriteFile(files, path, content) ==
    [p \in (DOMAIN files) \cup {path} |-> IF p = path THEN content ELSE files[p]]

\* HEADERS["Authorization"] after __init__(user_token=token)
HeadersAfterInit(headers, token) == IF token # NoToken THEN token ELSE headers

\* the raw listing and the stage a cached collection is derived from
RawOf(prop) ==
    IF prop \in {"owner_repositories", "owner_clone_links"} THEN "_repositories" ELSE "_starred_list"

StageOf(prop) ==
    IF prop \in {"owner_repositories", "owner_clone_links"} THEN "repos" ELSE "starred"

IsCloneProp(prop) == prop \in {"owner_clone_links", "user_starred_links"}

\* a plain property in place of cached_property: nothing is ever found stored
CacheHitNever(store, name) == FALSE

\* functools.cached_property: the stored value is returned when there is one
CacheHit(store, name) == name \in DOMAIN store

CachePut(store, name, value) ==
    [n \in (DOMAIN store) \cup {name} |-> IF n = name THEN value ELSE store[n]]

\* reading self.<prop>, resp being the answer of the listing endpoint if it is asked
Evaluate(prop, resp) ==
    IF CacheHit(cache, prop)
    THEN [raised |-> FALSE, requested |-> FALSE, cache |-> cache, value |-> cache[prop]]
    ELSE IF CacheHit(cache, RawOf(prop))
    THEN LET v == RemoteRequest(cache[RawOf(prop)], IsCloneProp(prop), self.user_forks)
         IN  [raised |-> FALSE, requested |-> FALSE,
              cache |-> CachePut(cache, prop, v), value |-> v]
    ELSE LET r == ApiRequest(resp)
             v == RemoteRequest(r.value, IsCloneProp(prop), self.user_forks)
         IN  IF r.raised
             THEN [raised |-> TRUE, requested |-> TRUE, cache |-> cache, value |-> <<>>]
             ELSE [raised |-> FALSE, requested |-> TRUE,
                   cache |-> CachePut(CachePut(cache, RawOf(prop), r.value), prop, v),
                   value |-> v]

----------------------------------------------------------------------------
(* State *)

IdleOp ==
    [name |-> "idle", stage |-> "", force |-> FALSE, starred |-> FALSE,
     bare |-> FALSE, recursive |-> FALSE, coll |-> <<>>, idx |-> 1, repo_dict |-> <<>>]

NoResponse == [status |-> 0, body |-> <<>>]

NoRequest == [client |-> 0, kind |-> "none", authorization |-> ""]

ExportStages == {"stargazers", "forks", "issues"}

\* the files a run may find in place: nothing, or an earlier export and an archive
InitialFiles ==
    { <<>>,
      [p \in {JsonPath(Login, "stargazers"), PathJoin(SavePath, <<"a", ".", "zip">>)}
          |-> OldContent] }

Init ==
    /\ pc = "start"
    /\ HEADERS = ""
    /\ self = [login |-> Login, token |-> NoToken, user_forks |-> FALSE]
    /\ cache = <<>>
    /\ fs \in InitialFiles
    /\ op = IdleOp
    /\ visited = <<>>
    /\ cmds = <<>>
    /\ listReqs = [s \in {"repos", "starred"} |-> 0]
    /\ lastListing = NoResponse
    /\ nExports = 0
    /\ clients = [c \in 1..MaxClients |-> "NotCreated"]
    /\ sent = NoRequest

----------------------------------------------------------------------------
(* The run of __parser_github *)

\* GitHubSaver(user_login, user_token, user_forks)
Construct ==
    /\ pc = "start"
    /\ \E token \in {NoToken} \cup Tokens, user_forks \in BOOLEAN :
          /\ self' = [login |-> Login, token |-> token, user_forks |-> user_forks]
          /\ HEADERS' = HeadersAfterInit(HEADERS, token)
    /\ pc' = "stars"
    /\ UNCHANGED <<cache, fs, op, visited, cmds, listReqs, lastListing,
                   nExports, clients, sent>>

\* entry of a terminal operation: reads self.<prop>, which may issue the listing
\* request and raise; newOp holds the arguments of the operation
BeginOp(prop, newOp, loop) ==
    \E resp \in ListingResponses(StageOf(prop)) :
        LET ev == Evaluate(prop, resp) IN
        /\ listReqs' = IF ev.requested
                       THEN [listReqs EXCEPT ![StageOf(prop)] = @ + 1]
                       ELSE listReqs
        /\ lastListing' = IF ev.requested THEN resp ELSE lastListing
        /\ IF ev.raised
           THEN /\ pc' = "aborted"
                /\ UNCHANGED <<cache, op, visited>>
           ELSE /\ pc' = loop
                /\ cache' = ev.cache
                /\ op' = [newOp EXCEPT !.coll = ev.value]
                /\ visited' = <<>>

NextAfter(stage) ==
    CASE stage = "stargazers" -> "forks"
      [] stage = "forks"      -> "issues"
      [] stage = "issues"     -> "save"

\* "if args.<flag>: github_saver.save_<stage>()"
MainExport(here, stage) ==
    /\ pc = here
    /\ \E flag \in (IF nExports < MaxExports THEN BOOLEAN ELSE {FALSE}) :
          IF flag
          THEN /\ BeginOp("owner_repositories",
                          [IdleOp EXCEPT !.name = "save_list", !.stage = stage], "list_loop")
               /\ nExports' = nExports + 1
               /\ UNCHANGED <<HEADERS, self, fs, cmds, clients, sent>>
          ELSE /\ pc' = NextAfter(stage)
               /\ UNCHANGED <<HEADERS, self, cache, fs, op, visited, cmds, listReqs,
                              lastListing, nExports, clients, sent>>

MainStars == MainExport("stars", "stargazers")

MainForks == MainExport("forks", "forks")

MainIssues == MainExport("issues", "issues")

\* the loop of __save_list with the json.dump inside the loop body
ListFetchDumpsEachTime ==
    /\ pc = "list_loop"
    /\ op.idx <= Len(op.coll)
    /\ \E resp \in DetailResponses(op.stage) :
          LET repo_url == op.coll[op.idx]
              dict == SaveListItem(op.repo_dict, repo_url, op.stage, resp)
          IN  /\ op' = [op EXCEPT !.idx = @ + 1, !.repo_dict = dict]
              /\ fs' = WriteFile(fs, JsonPath(self.login, op.stage), [kind |-> "json", of |-> dict])
              /\ visited' = Append(visited, [repo |-> repo_url,
                                             req |-> PathJoin(repo_url, <<op.stage>>),
                                             resp |-> resp])
    /\ UNCHANGED <<pc, HEADERS, self, cache, cmds, listReqs, lastListing,
                   nExports, clients, sent>>

\* one iteration of the loop of __save_list
ListFetch ==
    /\ pc = "list_loop"
    /\ op.idx <= Len(op.coll)
    /\ \E resp \in DetailResponses(op.stage) :
          LET repo_url == op.coll[op.idx] IN
          /\ op' = [op EXCEPT !.idx = @ + 1,
                              !.repo_dict = SaveListItem(@, repo_url, op.stage, resp)]
          /\ visited' = Append(visited, [repo |-> repo_url,
                                         req |-> PathJoin(repo_url, <<op.stage>>),
                                         resp |-> resp])
    /\ UNCHANGED <<pc, HEADERS, self, cache, fs, cmds, listReqs, lastListing,
                   nExports, clients, sent>>

\* the end of __save_list: json.dump of repo_dict
ListWrite ==
    /\ pc = "list_loop"
    /\ op.idx > Len(op.coll)
    /\ fs' = WriteFile(fs, JsonPath(self.login, op.stage), [kind |-> "json", of |-> op.repo_dict])
    /\ pc' = NextAfter(op.stage)
    /\ op' = IdleOp
    /\ visited' = <<>>
    /\ UNCHANGED <<HEADERS, self, cache, cmds, listReqs, lastListing,
                   nExports, clients, sent>>

\* "if args.save: github_saver.save_repos(...)"
MainSave ==
    /\ pc = "save"
    /\ \E save \in BOOLEAN, force \in BOOLEAN, starred \in BOOLEAN :
          IF save
          THEN /\ BeginOp(IF starred THEN "user_starred_list" ELSE "owner_repositories",
                          [IdleOp EXCEPT !.name = "save_repos", !.force = force,
                                         !.starred = starred], "zip_loop")
               /\ UNCHANGED <<HEADERS, self, fs, cmds, nExports, clients, sent>>
          ELSE /\ pc' = "clone"
               /\ UNCHANGED <<HEADERS, self, cache, fs, op, visited, cmds, listReqs,
                              lastListing, nExports, clients, sent>>

\* what one iteration of save_repos does to the file system
ZipStep(files, force, repo_url, resp) ==
    LET repo_path == ZipPath(SavePath, repo_url) IN
    IF resp.status = OK /\ ZipWrites(force, DOMAIN files, repo_path)
    THEN WriteFile(files, repo_path, resp.content)
    ELSE files

\* the loop of save_repos with a failed download raising (raise_for_status)
ZipFetchRaises ==
    /\ pc = "zip_loop"
    /\ op.idx <= Len(op.coll)
    /\ \E resp \in ZipResponses(op.coll[op.idx]) :
          LET repo_url == op.coll[op.idx] IN
          /\ fs' = ZipStep(fs, op.force, repo_url, resp)
          /\ visited' = Append(visited, [repo |-> repo_url,
                                         req |-> PathJoin(repo_url, <<"zipball">>),
                                         resp |-> resp])
          /\ pc' = IF resp.status = OK THEN pc ELSE "aborted"
    /\ op' = [op EXCEPT !.idx = @ + 1]
    /\ UNCHANGED <<HEADERS, self, cache, cmds, listReqs, lastListing,
                   nExports, clients, sent>>

\* one iteration of the loop of save_repos
ZipFetch ==
    /\ pc = "zip_loop"
    /\ op.idx <= Len(op.coll)
    /\ \E resp \in ZipResponses(op.coll[op.idx]) :
          LET repo_url == op.coll[op.idx] IN
          /\ fs' = ZipStep(fs, op.force, repo_url, resp)
          /\ visited' = Append(visited, [repo |-> repo_url,
                                         req |-> PathJoin(repo_url, <<"zipball">>),
                                         resp |-> resp])
    /\ op' = [op EXCEPT !.idx = @ + 1]
    /\ UNCHANGED <<pc, HEADERS, self, cache, cmds, listReqs, lastListing,
                   nExports, clients, sent>>

\* save_repos returns; --save and --clone are mutually exclusive
ZipDone ==
    /\ pc = "zip_loop"
    /\ op.idx > Len(op.coll)
    /\ pc' = "done"
    /\ op' = IdleOp
    /\ visited' = <<>>
    /\ UNCHANGED <<HEADERS, self, cache, fs, cmds, listReqs, lastListing,
                   nExports, clients, sent>>

\* "if args.clone: github_saver.clone_repos(...)"
MainClone ==
    /\ pc = "clone"
    /\ \E clone \in BOOLEAN, bare \in BOOLEAN, recursive \in BOOLEAN, starred \in BOOLEAN :
          IF clone
          THEN /\ BeginOp(IF starred THEN "user_starred_links" ELSE "owner_clone_links",
                          [IdleOp EXCEPT !.name = "clone_repos", !.bare = bare,
                                         !.recursive = recursive, !.starred = starred],
                          "clone_loop")
               /\ UNCHANGED <<HEADERS, self, fs, cmds, nExports, clients, sent>>
          ELSE /\ pc' = "done"
               /\ UNCHANGED <<HEADERS, self, cache, fs, op, visited, cmds, listReqs,
                              lastListing, nExports, clients, sent>>

\* the command of one iteration of clone_repos
CloneCommand(repo_url, login, token, bare, recursive) ==
    [repo      |-> repo_url,
     url       |-> CloneTarget(repo_url, login, token),
     path      |-> ClonePath(SavePath, repo_url),
     bare      |-> bare,
     recursive |-> recursive]

\* one iteration of the loop of clone_repos; the exit status of os.system is dropped
CloneItem ==
    /\ pc = "clone_loop"
    /\ op.idx <= Len(op.coll)
    /\ \E exit \in {0, 128} :
          LET repo_url == op.coll[op.idx]
              command == CloneCommand(repo_url, self.login, self.token, op.bare, op.recursive)
          IN  /\ cmds' = Append(cmds, command)
              /\ visited' = Append(visited, [repo |-> repo_url, req |-> command.url,
                                             resp |-> [status |-> 0]])
    /\ op' = [op EXCEPT !.idx = @ + 1]
    /\ UNCHANGED <<pc, HEADERS, self, cache, fs, listReqs, lastListing,
                   nExports, clients, sent>>

\* clone_repos returns
CloneDone ==
    /\ pc = "clone_loop"
    /\ op.idx > Len(op.coll)
    /\ pc' = "done"
    /\ op' = IdleOp
    /\ visited' = <<>>
    /\ UNCHANGED <<HEADERS, self, cache, fs, cmds, listReqs, lastListing,
                   nExports, clients, sent>>

Next ==
    \/ Construct
    \/ MainStars
    \/ MainForks
    \/ MainIssues
    \/ ListFetch
    \/ ListWrite
    \/ MainSave
    \/ ZipFetch
    \/ ZipDone
    \/ MainClone
    \/ CloneItem
    \/ CloneDone

Spec == Init /\ [][Next]_vars

----------------------------------------------------------------------------
(* Library use: several GitHubSaver instances in one process *)

LibTokens == {"T", "U"}

InitClients ==
    /\ pc = "library"
    /\ HEADERS = ""
    /\ self = [login |-> Login, token |-> NoToken, user_forks |-> FALSE]
    /\ cache = <<>>
    /\ fs = <<>>
    /\ op = IdleOp
    /\ visited = <<>>
    /\ cmds = <<>>
    /\ listReqs = [s \in {"repos", "starred"} |-> 0]
    /\ lastListing = NoResponse
    /\ nExports = 0
    /\ clients = [c \in 1..MaxClients |-> "NotCreated"]
    /\ sent = NoRequest

\* GitHubSaver.__init__ of a further instance
NewClient(c) ==
    /\ pc = "library"
    /\ clients[c] = "NotCreated"
    /\ \E token \in {NoToken} \cup LibTokens :
          /\ clients' = [clients EXCEPT ![c] = token]
          /\ HEADERS' = HeadersAfterInit(HEADERS, token)
    /\ UNCHANGED <<pc, self, cache, fs, op, visited, cmds, listReqs, lastListing,
                   nExports, sent>>

\* __response of instance c: requests.get(..., headers=self.HEADERS)
ClientResponse(c) ==
    /\ pc = "library"
    /\ clients[c] # "NotCreated"
    /\ sent' = [client |-> c, kind |-> "api", authorization |-> HEADERS]
    /\ UNCHANGED <<pc, HEADERS, self, cache, fs, op, visited, cmds, listReqs,
                   lastListing, nExports, clients>>

\* the zipball request of save_repos of instance c: requests.get(url=...), no headers
ClientZipball(c) ==
    /\ pc = "library"
    /\ clients[c] # "NotCreated"
    /\ sent' = [client |-> c, kind |-> "zipball", authorization |-> "absent"]
    /\ UNCHANGED <<pc, HEADERS, self, cache, fs, op, visited, cmds, listReqs,
                   lastListing, nExports, clients>>

NextClients ==
    \/ \E c \in 1..MaxClients : NewClient(c)
    \/ \E c \in 1..MaxClients : ClientResponse(c)
    \/ \E c \in 1..MaxClients : ClientZipball(c)

SpecClients == InitClients /\ [][NextClients]_vars

----------------------------------------------------------------------------
(* Properties *)

Loops == {"list_loop", "zip_loop", "clone_loop"}

DerivedProps ==
    {"owner_repositories", "owner_clone_links", "user_starred_list", "user_starred_links"}

ListingOk(r) == r.status = OK /\ r.body # <<>>

\* the entries of a listing that the fork rule keeps, in listing order
KeptEntries(listing, user_forks) ==
    SelectSeq(listing, LAMBDA e : user_forks \/ ~e.fork)

FilteredAsSpecified(prop) ==
    LET kept == KeptEntries(cache[RawOf(prop)], self.user_forks)
        coll == cache[prop]
    IN  /\ Len(coll) = Len(kept)
        /\ \A i \in 1..Len(coll) :
              coll[i] = IF IsCloneProp(prop) THEN kept[i].clone_url ELSE kept[i].url
        /\ \A i, j \in 1..Len(coll) : i # j => coll[i] # coll[j]
        /\ self.user_forks => Len(coll) = Len(cache[RawOf(prop)])

\* C1: every derived collection (owner_repositories, owner_clone_links,
\* user_starred_list, user_starred_links) is the listing without its fork
\* entries when include-forks is off and the whole listing when it is on, in
\* listing order and without duplicates.
C1_ForkFilter ==
    \A prop \in DerivedProps \cap DOMAIN cache :
        /\ RawOf(prop) \in DOMAIN cache
        /\ FilteredAsSpecified(prop)

\* a collection was derived, with include-forks off, from a listing holding a
\* fork and a repository that is no fork
C1_Witness ==
    /\ ~self.user_forks
    /\ \E prop \in DerivedProps \cap DOMAIN cache :
          /\ \E i, j \in 1..Len(cache[RawOf(prop)]) :
                cache[RawOf(prop)][i].fork /\ ~cache[RawOf(prop)][j].fork
          /\ Len(cache[prop]) = 1

\* C2: a listing request answered with a non-200 status or an empty listing
\* aborts the run in that step: no per-repository request, no file written,
\* no command run, and nothing happens after the abort.
C2_ListingFailureAborts ==
    [][ /\ pc # "aborted"
        /\ (listReqs' # listReqs /\ ~ListingOk(lastListing'))
              => /\ pc' = "aborted"
                 /\ fs' = fs
                 /\ cmds' = cmds
                 /\ visited' = visited
                 /\ op' = op ]_vars

\* the starred listing came back empty after an export over the owned set
C2_Witness ==
    /\ pc = "aborted"
    /\ listReqs["repos"] = 1
    /\ listReqs["starred"] = 1
    /\ lastListing.status = OK
    /\ lastListing.body = <<>>

Keys(dict) == { dict[k].key : k \in 1..Len(dict) }

\* the names of the repositories whose detail fetch gave a non-empty list
Fetched(log) ==
    { Basename(log[i].repo) : i \in { k \in 1..Len(log) :
                                        log[k].resp.status = OK /\ log[k].resp.body # <<>> } }

\* C3: the keys of the written mapping are exactly the names of the
\* repositories whose detail fetch returned 200 with a non-empty list; no key
\* has an empty value.
C3_KeysAreFetched ==
    [][ (pc = "list_loop" /\ pc' # "list_loop")
          => LET path == JsonPath(self.login, op.stage) IN
             /\ path \in DOMAIN fs'
             /\ fs'[path].kind = "json"
             /\ Len(visited) = Len(op.coll)
             /\ Keys(fs'[path].of) = Fetched(visited)
             /\ \A k \in 1..Len(fs'[path].of) : fs'[path].of[k].value # <<>>
             /\ \A k, m \in 1..Len(fs'[path].of) :
                   k # m => fs'[path].of[k].key # fs'[path].of[m].key ]_vars

\* an export over two repositories was written with one key
C3_Witness ==
    /\ "owner_repositories" \in DOMAIN cache
    /\ Len(cache["owner_repositories"]) = 2
    /\ \E stage \in ExportStages :
          /\ JsonPath(self.login, stage) \in DOMAIN fs
          /\ fs[JsonPath(self.login, stage)].kind = "json"
          /\ Len(fs[JsonPath(self.login, stage)].of) = 1

\* C4: in save_repos, for a zipball answered 200: with force off and a file
\* at the target path nothing is written and the file keeps its bytes;
\* otherwise the file at that path holds the fetched body.  With force off
\* no existing file changes during the operation.
C4_ForceRule ==
    [][ (pc = "zip_loop" /\ op'.idx = op.idx + 1)
          => LET repo_url == op.coll[op.idx]
                 path == PathJoin(SavePath, Basename(repo_url) \o <<".", "zip">>)
                 resp == visited'[Len(visited')].resp
             IN  /\ (resp.status = OK /\ ~op.force /\ path \in DOMAIN fs) => fs' = fs
                 /\ (resp.status = OK /\ (op.force \/ path \notin DOMAIN fs))
                       => /\ path \in DOMAIN fs'
                          /\ fs'[path] = resp.content
                          /\ \A p \in DOMAIN fs \ {path} : p \in DOMAIN fs' /\ fs'[p] = fs[p]
                 /\ ~op.force => \A p \in DOMAIN fs : p \in DOMAIN fs' /\ fs'[p] = fs[p] ]_vars

\* an archive answered 200 was skipped because a file was in place
C4_Witness ==
    /\ pc = "zip_loop"
    /\ ~op.force
    /\ \E i \in 1..Len(visited) :
          /\ visited[i].resp.status = OK
          /\ ZipPath(SavePath, visited[i].repo) \in DOMAIN fs
          /\ fs[ZipPath(SavePath, visited[i].repo)] = OldContent

\* the position of the run, counted from its end
Position ==
    CASE pc = "start"      -> 13
      [] pc = "stars"      -> 12
      [] pc = "forks"      -> 10
      [] pc = "issues"     -> 8
      [] pc = "list_loop"  -> (IF op.stage = "stargazers" THEN 11
                               ELSE IF op.stage = "forks" THEN 9 ELSE 7)
      [] pc = "save"       -> 6
      [] pc = "zip_loop"   -> 5
      [] pc = "clone"      -> 4
      [] pc = "clone_loop" -> 3
      [] OTHER             -> 0

\* a measure of what is left of the run: positions, then items of the loop
Remaining ==
    Position * (MaxListing + 2)
        + (IF pc \in Loops THEN Len(op.coll) + 1 - Len(visited) ELSE 0)

C6_TokenOfTheClient ==
    sent.kind = "api"
        => sent.authorization =
              (IF clients[sent.client] = NoToken THEN "" ELSE clients[sent.client])

\* C7: the clone URL of the command is the repository's clone URL with
\* <login>:<token>@ inserted once, right before the host, when a token is
\* configured, and the clone URL itself when none is.
C7_CloneUrlRewritten ==
    \A k \in 1..Len(cmds) :
        cmds[k].url =
            IF self.token = NoToken
            THEN cmds[k].repo
            ELSE SubSeq(cmds[k].repo, 1, 3) \o <<self.login, ":", self.token, "@">>
                     \o SubSeq(cmds[k].repo, 4, Len(cmds[k].repo))

\* C8: the JSON file is written once, after the last detail fetch has
\* returned: entering the loop and every fetch leave the file system as it
\* is, and the step that leaves the loop writes the whole mapping to
\* <user_login>_<detailKind>.json and touches no other file.
C8_WrittenOnceAtTheEnd ==
    [][ /\ pc' = "list_loop" => fs' = fs
        /\ (pc = "list_loop" /\ pc' # "list_loop")
              => LET path == JsonPath(self.login, op.stage) IN
                 /\ Len(visited) = Len(op.coll)
                 /\ DOMAIN fs' = DOMAIN fs \cup {path}
                 /\ fs'[path] = [kind |-> "json", of |-> op.repo_dict]
                 /\ \A p \in DOMAIN fs \ {path} : fs'[p] = fs[p] ]_vars

\* in the middle of an export the file of an earlier export is still in place
C8_Witness ==
    /\ pc = "list_loop"
    /\ Len(visited) >= 1
    /\ op.repo_dict # <<>>
    /\ JsonPath(self.login, op.stage) \in DOMAIN fs
    /\ fs[JsonPath(self.login, op.stage)] = OldContent

\* the cached property an operation iterates
PropOf(o) ==
    CASE o.name = "save_list"   -> "owner_repositories"
      [] o.name = "save_repos"  -> IF o.starred THEN "user_starred_list" ELSE "owner_repositories"
      [] o.name = "clone_repos" -> IF o.starred THEN "user_starred_links" ELSE "owner_clone_links"

\* C9: each listing endpoint is requested at most once in a run, the stored
\* listing never changes, and every operation iterates the collection derived
\* from that one listing.
C9_ListingRequestedOnce ==
    /\ [](\A s \in {"repos", "starred"} : listReqs[s] <= 1)
    /\ [](pc \in Loops =>
             /\ RawOf(PropOf(op)) \in DOMAIN cache
             /\ listReqs[StageOf(PropOf(op))] = 1
             /\ \A i \in 1..Len(op.coll) :
                   op.coll[i] = IF IsCloneProp(PropOf(op))
                                THEN KeptEntries(cache[RawOf(PropOf(op))], self.user_forks)[i].clone_url
                                ELSE KeptEntries(cache[RawOf(PropOf(op))], self.user_forks)[i].url
             /\ Len(op.coll) = Len(KeptEntries(cache[RawOf(PropOf(op))], self.user_forks)))
    /\ [][ /\ \A n \in DOMAIN cache : n \in DOMAIN cache' /\ cache'[n] = cache[n]
           /\ \A s \in {"repos", "starred"} :
                 listReqs'[s] # listReqs[s]
                    => /\ (IF s = "repos" THEN "_repositories" ELSE "_starred_list") \notin DOMAIN cache
                       /\ ListingOk(lastListing') =>
                             cache'[IF s = "repos" THEN "_repositories" ELSE "_starred_list"]
                                = lastListing'.body ]_vars

\* a second operation iterates the owned set with one request made
C9_Witness ==
    /\ pc \in {"zip_loop", "clone_loop"}
    /\ ~op.starred
    /\ nExports = 1
    /\ Len(op.coll) = 2
    /\ listReqs["repos"] = 1

\* C10: in save_repos no two repositories of the collection share a target
\* path, so with force on and a destination that was empty at the start every
\* repository whose zipball was answered 200 has a file holding its own bytes.
C10_OneArchivePerRepository ==
    (/\ pc = "zip_loop"
     /\ op.force
     /\ \A p \in DOMAIN fs : \E i \in 1..Len(visited) : p = ZipPath(SavePath, visited[i].repo))
        => \A i \in 1..Len(visited) :
              visited[i].resp.status = OK
                 => /\ ZipPath(SavePath, visited[i].repo) \in DOMAIN fs
                    /\ fs[ZipPath(SavePath, visited[i].repo)] = visited[i].resp.content

====
